---- MODULE Spec2Model ----
(***************************************************************************)
(* Model of the SVGR API client: SvgrClient.convert and its retry loop     *)
(* SvgrClient.withRetry (src/src/network/SvgrClient.ts).                   *)
(*                                                                         *)
(* A convert call is an async function: it runs without interruption from  *)
(* one await to the next.  Each action below is one such run: the code     *)
(* from the resumption of an await (a transport answer, a fired timer) up  *)
(* to the next await or to the settlement of the call's promise.           *)
(*                                                                         *)
(* Optional values (a field that may be absent, a variable not yet         *)
(* assigned) are sequences of length at most one: <<>> is undefined.       *)
(***************************************************************************)
EXTENDS Integers, Sequences, FiniteSets, TLC

\* ---------------------------------------------------------------- bounds
\* Largest maxRetries of a retry policy the model constructs a client with.
MaxRetriesBound == 3
\* Largest baseDelayMs of a retry policy the model constructs a client with.
MaxBaseDelay == 2

\* Largest maxRetries of a policy in the specifications of concurrent calls
\* and of the hooks.
SmallMaxRetries == 2
\* Number of svgrKeys.convert() calls the model makes.
MaxKeyCalls == 2

\* ------------------------------------------------------------- constants
DEFAULT_RETRYABLE_STATUSES == {408, 429, 500, 502, 503, 504}

FallbackMessage == "Conversion failed"

\* ------------------------------------------------ the transport's answers
\* HTTP statuses the modelled transport answers with: a success status, a
\* permanent client error, a status retryable only by a custom policy, and a
\* status of the default retryable set.
Statuses == {200, 400, 418, 500}

\* response.data: null/undefined, a falsy non-null value (""), or a decoded
\* JSON object {success, data?, error?}.
DataNull == [kind |-> "null", success |-> FALSE, svg |-> <<>>, error |-> <<>>]

DataEmpty == [kind |-> "empty", success |-> FALSE, svg |-> <<>>, error |-> <<>>]

Envelope(success, svg, error) ==
    [kind |-> "object", success |-> success, svg |-> svg, error |-> error]

Payloads ==
    { DataNull, DataEmpty,
      Envelope(TRUE, <<"<svg/>">>, <<>>),
      Envelope(FALSE, <<>>, <<>>),
      Envelope(FALSE, <<>>, <<"Bad request">>),
      Envelope(FALSE, <<>>, <<"">>) }

\* The normalized result of NetworkClient.post: {ok, status, data}.
Responses == [ok : BOOLEAN, status : Statuses, data : Payloads]

\* ------------------------------------------------------ the configuration
NoRetry ==
    [present |-> FALSE, maxRetries |-> 0, baseDelayMs |-> 0,
     retryableStatuses |-> <<>>]

RetryConfig(maxRetries, baseDelayMs, retryableStatuses) ==
    [present |-> TRUE, maxRetries |-> maxRetries, baseDelayMs |-> baseDelayMs,
     retryableStatuses |-> retryableStatuses]

\* retryableStatuses of the policies the model builds: omitted, an empty
\* array, or the array [418].
RetryableChoices == { <<>>, <<{}>>, <<{418}>> }

RetryConfigs ==
    { RetryConfig(n, b, s) : n \in 0..MaxRetriesBound, b \in 0..MaxBaseDelay,
                             s \in RetryableChoices }

\* The convert calls of the sequential specification: one call.
CallIds == {"call1"}

\* config.baseUrl of the clients the model constructs.
BaseUrls == {"http://localhost:3001", "https://api.svgr.app"}

\* The arguments of convert / the fields of ConvertMutationParams: original
\* is required, the other three may be omitted (<<>>).
ConvertArgs(original, filename, quality, transparentBg) ==
    [original |-> original, filename |-> filename, quality |-> quality,
     transparentBg |-> transparentBg]

AllArgs ==
    { ConvertArgs("data", f, q, t) :
        f \in {<<>>, <<"photo.png">>}, q \in {<<>>, <<7>>},
        t \in {<<>>, <<TRUE>>, <<FALSE>>} }

\* convert(data, undefined, 7, true)
ScenarioArgs == ConvertArgs("data", <<>>, <<7>>, <<TRUE>>)

\* useMutation before the first trigger.
MutationIdle ==
    [status |-> "idle", variables |-> <<>>, data |-> <<>>, error |-> <<>>]

VARIABLES
    baseUrl,       \* this.baseUrl
    retryConfig,   \* this.retryConfig: NoRetry when config.retry is undefined
    pc,            \* pc[c]: the await the call c is suspended at
    args,          \* args[c]: the parameters of the call, captured by makeRequest
    attempt,       \* attempt[c]: the loop variable of withRetry
    response,      \* response[c]: the variable response of withRetry/convert
    outcome,       \* outcome[c]: how the promise of convert settled
    calls,         \* calls[c]: number of invocations of networkClient.post
    sent,          \* sent[c]: the requests handed to networkClient.post
    inFlight,      \* inFlight[c]: invocations of post not yet settled
    delays,        \* delays[c]: the delays passed to setTimeout, in order
    received,      \* received[c]: the responses the transport returned
    threwAt,       \* threwAt[c]: the transport call that threw (0: none did)
    mutation,      \* mutation[c]: the mutation object of useConvert
    svgrAll,       \* the array svgrKeys.all
    keysReturned   \* the arrays returned by svgrKeys.convert(), in order

configVars == <<baseUrl, retryConfig>>

keyVars == <<svgrAll, keysReturned>>

vars ==
    <<baseUrl, retryConfig, pc, args, attempt, response, outcome, calls, sent,
      inFlight, delays, received, threwAt, mutation, svgrAll, keysReturned>>

\* ------------------------------------------------------- pure operators
\* JavaScript truthiness of response.data: null, undefined and "" are falsy,
\* every object is truthy.
Truthy(data) == data.kind = "object"

\* errorData?.error: undefined unless data is an object with an error field.
ErrorField(data) == IF data.kind = "object" THEN data.error ELSE <<>>

\* Variant: the message is never read from the payload.
ErrorMessage_AlwaysFallback(data) == FallbackMessage

\* errorData?.error || "Conversion failed": || takes the right operand when
\* the left one is falsy (undefined or the empty string).
ErrorMessage(data) ==
    IF ErrorField(data) # <<>> /\ ErrorField(data)[1] # ""
    THEN ErrorField(data)[1]
    ELSE FallbackMessage

\* Variant: the payload is not tested, only the ok flag.
IsFailure_OkOnly(r) == ~r.ok

\* Variant: an envelope whose success field is false is raised as well.
IsFailure_ReadsSuccessFlag(r) == ~r.ok \/ ~Truthy(r.data) \/ ~r.data.success

\* !response.ok || !response.data
IsFailure(r) == ~r.ok \/ ~Truthy(r.data)

Returned(data) ==
    [kind |-> "returned", status |-> 0, message |-> "", value |-> data]

SvgrApiError(status, message) ==
    [kind |-> "SvgrApiError", status |-> status, message |-> message,
     value |-> DataNull]

\* An exception of the transport itself, rejected through convert unchanged.
TransportError ==
    [kind |-> "TransportError", status |-> 0, message |-> "",
     value |-> DataNull]

\* Variant: an empty payload under ok=true is dereferenced instead of tested,
\* which raises the runtime's own TypeError.
Settle_UntypedOnEmpty(r) ==
    IF ~r.ok
    THEN SvgrApiError(r.status, ErrorMessage(r.data))
    ELSE IF ~Truthy(r.data)
         THEN [kind |-> "TypeError", status |-> 0, message |-> "",
               value |-> DataNull]
         ELSE Returned(r.data)

\* The tail of convert: throw new SvgrApiError(...) or return response.data.
Settle(r) ==
    IF IsFailure(r)
    THEN SvgrApiError(r.status, ErrorMessage(r.data))
    ELSE Returned(r.data)

\* this.retryConfig ? withRetry(...) : makeRequest()
UseRetry(cfg) == cfg.present

\* Variant: the supplied statuses are added to the defaults.
RetryableStatuses_Extends(cfg) ==
    IF cfg.retryableStatuses # <<>>
    THEN cfg.retryableStatuses[1] \cup DEFAULT_RETRYABLE_STATUSES
    ELSE DEFAULT_RETRYABLE_STATUSES

\* config.retryableStatuses ?? DEFAULT_RETRYABLE_STATUSES
RetryableStatuses(cfg) ==
    IF cfg.retryableStatuses # <<>>
    THEN cfg.retryableStatuses[1]
    ELSE DEFAULT_RETRYABLE_STATUSES

\* Variant: one iteration too many.
LoopCond_Inclusive(a, cfg) == a <= cfg.maxRetries

\* Variant: maxRetries counts the attempts, not the retries.
LoopCond_CountsAttempts(a, cfg) == a + 1 < cfg.maxRetries

\* Variant: a maxRetries of 0 is taken as unset and replaced by the
\* documented default of 3.
LoopCond_ZeroIsDefault(a, cfg) ==
    a < (IF cfg.maxRetries = 0 THEN 3 ELSE cfg.maxRetries)

\* The loop condition: attempt < config.maxRetries
LoopCond(a, cfg) == a < cfg.maxRetries

\* Variant: the ok flag is ignored, only the status decides.
ShouldReturn_StatusOnly(r, cfg) == r.status \notin RetryableStatuses(cfg)

\* Variant: every failure is retried, whatever its status.
ShouldReturn_OkOnly(r, cfg) == r.ok

\* Variant: ok=true stops the loop only when a payload came with it.
ShouldReturn_NeedsPayload(r, cfg) ==
    (r.ok /\ Truthy(r.data)) \/ r.status \notin RetryableStatuses(cfg)

\* response.ok || !retryableStatuses.includes(response.status)
ShouldReturn(r, cfg) == r.ok \/ r.status \notin RetryableStatuses(cfg)

\* Variant: linear instead of exponential backoff.
BackoffDelay_Linear(cfg, a) == cfg.baseDelayMs * (a + 1)

\* Variant: the exponent counts the delays of every call of the client.
BackoffDelay_Global(cfg, a) ==
    cfg.baseDelayMs *
        (2 ^ (IF \A c \in DOMAIN delays : delays[c] = <<>> THEN a ELSE a + 1))

\* config.baseDelayMs * Math.pow(2, attempt)
BackoffDelay(cfg, a) == cfg.baseDelayMs * (2 ^ a)

\* ----------------------------------------------------- request building
\* Variant: the documented server defaults (quality 5, transparentBg false)
\* are filled in by the client.
BodyObject_Defaults(a) ==
    [original |-> <<a.original>>, filename |-> a.filename,
     quality |-> IF a.quality = <<>> THEN <<5>> ELSE a.quality,
     transparentBg |->
        IF a.transparentBg = <<>> THEN <<FALSE>> ELSE a.transparentBg]

\* The object literal { original, filename, quality, transparentBg }: all
\* four keys exist, an omitted parameter gives the value undefined.
BodyObject(a) ==
    [original |-> <<a.original>>, filename |-> a.filename,
     quality |-> a.quality, transparentBg |-> a.transparentBg]

\* makeRequest(): the arguments of networkClient.post.
MakeRequest(url, a) ==
    [url |-> <<url, "/api/v1/convert">>, body |-> BodyObject(a),
     timeout |-> 30000]

\* JSON.stringify of the body object, as the transport serializes it: a key
\* whose value is undefined is left out, every other value is written as is.
JsonStringify(body) ==
    [k \in {f \in DOMAIN body : body[f] # <<>>} |-> body[k][1]]

\* ------------------------------------------------------------ query keys
\* Variant: the new key is pushed onto svgrKeys.all itself.
SvgrKeysConvert_Push ==
    /\ Len(keysReturned) < MaxKeyCalls
    /\ svgrAll' = Append(svgrAll, "convert")
    /\ keysReturned' = Append(keysReturned, svgrAll')
    /\ UNCHANGED <<configVars, pc, args, attempt, response, outcome, calls,
                   sent, inFlight, delays, received, threwAt, mutation>>

\* svgrKeys.convert(): [...svgrKeys.all, "convert"], a new array.
SvgrKeysConvert ==
    /\ Len(keysReturned) < MaxKeyCalls
    /\ keysReturned' = Append(keysReturned, svgrAll \o <<"convert">>)
    /\ UNCHANGED <<configVars, pc, args, attempt, response, outcome, calls,
                   sent, inFlight, delays, received, threwAt, mutation,
                   svgrAll>>

\* ----------------------------------------------------------------- Init
\* The state after new SvgrClient(config), with the calls ids not yet made.
InitWith(ids, urls, configs) ==
    /\ baseUrl \in urls
    /\ retryConfig \in configs
    /\ pc = [c \in ids |-> "idle"]
    /\ args = [c \in ids |-> <<>>]
    /\ attempt = [c \in ids |-> 0]
    /\ response = [c \in ids |-> <<>>]
    /\ outcome = [c \in ids |-> <<>>]
    /\ calls = [c \in ids |-> 0]
    /\ sent = [c \in ids |-> <<>>]
    /\ inFlight = [c \in ids |-> 0]
    /\ delays = [c \in ids |-> <<>>]
    /\ received = [c \in ids |-> <<>>]
    /\ threwAt = [c \in ids |-> 0]
    /\ mutation = [c \in ids |-> MutationIdle]
    /\ svgrAll = <<"svgr">>
    /\ keysReturned = <<>>

Init ==
    InitWith(CallIds, {"http://localhost:3001"}, {NoRetry} \cup RetryConfigs)

\* -------------------------------------------------------------- actions
\* The body of convert up to its first await, which has already invoked
\* makeRequest() once, directly or as the first statement of withRetry.
ConvertCall(c, original, filename, quality, transparentBg) ==
    /\ pc[c] = "idle"
    /\ args' = [args EXCEPT ![c] =
                  <<ConvertArgs(original, filename, quality, transparentBg)>>]
    /\ calls' = [calls EXCEPT ![c] = @ + 1]
    /\ sent' = [sent EXCEPT ![c] = Append(@, MakeRequest(baseUrl, args'[c][1]))]
    /\ inFlight' = [inFlight EXCEPT ![c] = @ + 1]
    /\ pc' = [pc EXCEPT ![c] =
                IF UseRetry(retryConfig) THEN "withRetryFirst" ELSE "makeRequest"]
    /\ UNCHANGED <<configVars, attempt, response, outcome, delays, received,
                   threwAt>>

\* client.convert(original, filename, quality, transparentBg) is invoked by
\* the application itself.
Convert(c, a) ==
    /\ ConvertCall(c, a.original, a.filename, a.quality, a.transparentBg)
    /\ UNCHANGED <<mutation, keyVars>>

\* Variant: the earlier mutationFn, which forwards original and filename only.
MutationFn_TwoFields(c, p) ==
    ConvertCall(c, p.original, p.filename, <<>>, <<>>)

\* mutationFn of useConvert: the fields of the parameter object are passed
\* on positionally to client.convert.
MutationFn(c, p) ==
    ConvertCall(c, p.original, p.filename, p.quality, p.transparentBg)

\* mutate(p) on the object returned by useConvert(client): the mutation
\* becomes pending and mutationFn is invoked once.
Mutate(c, p) ==
    /\ mutation[c].status = "idle"
    /\ mutation' = [mutation EXCEPT ![c] =
                      [status |-> "pending", variables |-> <<p>>,
                       data |-> <<>>, error |-> <<>>]]
    /\ MutationFn(c, p)
    /\ UNCHANGED keyVars

\* The promise of convert settles with o: a mutation waiting for it becomes
\* success (with the resolved value) or error (with the rejection).
MutationSettled(c, o) ==
    IF mutation[c].status = "pending"
    THEN [mutation EXCEPT ![c] =
            IF o.kind = "returned"
            THEN [status |-> "success", variables |-> @.variables,
                  data |-> <<o.value>>, error |-> <<>>]
            ELSE [status |-> "error", variables |-> @.variables,
                  data |-> <<>>, error |-> <<o>>]]
    ELSE mutation

\* Variant: a 5xx answer is requested once more although no policy is set.
ReceiveDirect_Retry5xx(c, r) ==
    /\ pc[c] = "makeRequest"
    /\ response' = [response EXCEPT ![c] = <<r>>]
    /\ received' = [received EXCEPT ![c] = Append(@, r)]
    /\ IF r.status >= 500 /\ calls[c] < 2
       THEN /\ calls' = [calls EXCEPT ![c] = @ + 1]
            /\ sent' = [sent EXCEPT ![c] = Append(@, MakeRequest(baseUrl, args[c][1]))]
            /\ UNCHANGED <<outcome, pc, mutation, inFlight>>
       ELSE /\ outcome' = [outcome EXCEPT ![c] = <<Settle(r)>>]
            /\ mutation' = MutationSettled(c, Settle(r))
            /\ inFlight' = [inFlight EXCEPT ![c] = @ - 1]
            /\ pc' = [pc EXCEPT ![c] = "done"]
            /\ UNCHANGED <<calls, sent>>
    /\ UNCHANGED <<configVars, args, attempt, delays, threwAt, keyVars>>

\* Without a retry policy: await makeRequest() resumes with r and convert
\* settles on it.
ReceiveDirect(c, r) ==
    /\ pc[c] = "makeRequest"
    /\ response' = [response EXCEPT ![c] = <<r>>]
    /\ received' = [received EXCEPT ![c] = Append(@, r)]
    /\ inFlight' = [inFlight EXCEPT ![c] = @ - 1]
    /\ outcome' = [outcome EXCEPT ![c] = <<Settle(r)>>]
    /\ mutation' = MutationSettled(c, Settle(r))
    /\ pc' = [pc EXCEPT ![c] = "done"]
    /\ UNCHANGED <<configVars, args, attempt, calls, sent, delays, threwAt,
                   keyVars>>

\* Variant: exhausted retries are reported with an error of their own.
LoopFrom_ExhaustedError(c, r, a) ==
    IF LoopCond(a, retryConfig) /\ ~ShouldReturn(r, retryConfig)
    THEN /\ delays' = [delays EXCEPT ![c] = Append(@, BackoffDelay(retryConfig, a))]
         /\ pc' = [pc EXCEPT ![c] = "backoff"]
         /\ UNCHANGED <<outcome, mutation>>
    ELSE /\ outcome' = [outcome EXCEPT ![c] =
                          IF ShouldReturn(r, retryConfig)
                          THEN <<Settle(r)>>
                          ELSE <<SvgrApiError(r.status, "Max retries exceeded")>>]
         /\ mutation' = MutationSettled(c, outcome'[c][1])
         /\ pc' = [pc EXCEPT ![c] = "done"]
         /\ UNCHANGED delays

\* Variant: the delay is also waited after the last attempt has failed.
LoopFrom_DelayAfterLast(c, r, a) ==
    IF ShouldReturn(r, retryConfig)
    THEN /\ outcome' = [outcome EXCEPT ![c] = <<Settle(r)>>]
         /\ mutation' = MutationSettled(c, Settle(r))
         /\ pc' = [pc EXCEPT ![c] = "done"]
         /\ UNCHANGED delays
    ELSE /\ delays' = [delays EXCEPT ![c] = Append(@, BackoffDelay(retryConfig, a))]
         /\ IF LoopCond(a, retryConfig)
            THEN /\ pc' = [pc EXCEPT ![c] = "backoff"]
                 /\ UNCHANGED <<outcome, mutation>>
            ELSE /\ outcome' = [outcome EXCEPT ![c] = <<Settle(r)>>]
                 /\ mutation' = MutationSettled(c, Settle(r))
                 /\ pc' = [pc EXCEPT ![c] = "done"]

\* withRetry from the top of a loop iteration with response r and loop
\* variable a: either the loop returns r (its condition fails or r is not to
\* be retried) and convert settles on r, or the backoff timer is started.
LoopFrom(c, r, a) ==
    IF LoopCond(a, retryConfig) /\ ~ShouldReturn(r, retryConfig)
    THEN /\ delays' = [delays EXCEPT ![c] = Append(@, BackoffDelay(retryConfig, a))]
         /\ pc' = [pc EXCEPT ![c] = "backoff"]
         /\ UNCHANGED <<outcome, mutation>>
    ELSE /\ outcome' = [outcome EXCEPT ![c] = <<Settle(r)>>]
         /\ mutation' = MutationSettled(c, Settle(r))
         /\ pc' = [pc EXCEPT ![c] = "done"]
         /\ UNCHANGED delays

\* let response = await fn() resumes with r; the loop starts with attempt = 0.
ReceiveFirst(c, r) ==
    /\ pc[c] = "withRetryFirst"
    /\ response' = [response EXCEPT ![c] = <<r>>]
    /\ received' = [received EXCEPT ![c] = Append(@, r)]
    /\ inFlight' = [inFlight EXCEPT ![c] = @ - 1]
    /\ attempt' = [attempt EXCEPT ![c] = 0]
    /\ LoopFrom(c, r, 0)
    /\ UNCHANGED <<configVars, args, calls, sent, threwAt, keyVars>>

\* Variant: the timer runs beside the pending request instead of after it.
TimerFires_Racing(c) ==
    /\ pc[c] \in {"backoff", "withRetryFirst"}
    /\ calls' = [calls EXCEPT ![c] = @ + 1]
    /\ sent' = [sent EXCEPT ![c] = Append(@, MakeRequest(baseUrl, args[c][1]))]
    /\ inFlight' = [inFlight EXCEPT ![c] = @ + 1]
    /\ pc' = [pc EXCEPT ![c] = "withRetryNext"]
    /\ UNCHANGED <<configVars, args, attempt, response, outcome, delays,
                   received, threwAt, mutation, keyVars>>

\* Variant: the timer's callback is not the promise's resolve, so the await
\* of the delay never resumes.
TimerFires_NeverResolves(c) ==
    /\ pc[c] = "backoff"
    /\ pc' = [pc EXCEPT ![c] = "backoffFired"]
    /\ UNCHANGED <<configVars, args, attempt, response, outcome, calls, sent,
                   inFlight, delays, received, threwAt, mutation, keyVars>>

\* Variant: a retry is sent with a doubled timeout and without the optional
\* body fields.
TimerFires_AlteredRequest(c) ==
    /\ pc[c] = "backoff"
    /\ calls' = [calls EXCEPT ![c] = @ + 1]
    /\ sent' = [sent EXCEPT ![c] =
                  Append(@, [MakeRequest(baseUrl, args[c][1]) EXCEPT
                               !.timeout = 2 * @,
                               !.body = BodyObject(
                                   ConvertArgs(args[c][1].original, <<>>,
                                               <<>>, <<>>))])]
    /\ inFlight' = [inFlight EXCEPT ![c] = @ + 1]
    /\ pc' = [pc EXCEPT ![c] = "withRetryNext"]
    /\ UNCHANGED <<configVars, args, attempt, response, outcome, delays,
                   received, threwAt, mutation, keyVars>>

\* The backoff timer fires: the await of the delay resumes and fn() is
\* invoked again.
TimerFires(c) ==
    /\ pc[c] = "backoff"
    /\ calls' = [calls EXCEPT ![c] = @ + 1]
    /\ sent' = [sent EXCEPT ![c] = Append(@, MakeRequest(baseUrl, args[c][1]))]
    /\ inFlight' = [inFlight EXCEPT ![c] = @ + 1]
    /\ pc' = [pc EXCEPT ![c] = "withRetryNext"]
    /\ UNCHANGED <<configVars, args, attempt, response, outcome, delays,
                   received, threwAt, mutation, keyVars>>

\* Variant: the result of the retried fn() is not assigned to response.
ReceiveNext_Stale(c, r) ==
    /\ pc[c] = "withRetryNext"
    /\ received' = [received EXCEPT ![c] = Append(@, r)]
    /\ inFlight' = [inFlight EXCEPT ![c] = @ - 1]
    /\ attempt' = [attempt EXCEPT ![c] = @ + 1]
    /\ LoopFrom(c, response[c][1], attempt[c] + 1)
    /\ UNCHANGED <<configVars, args, response, calls, sent, threwAt, keyVars>>

\* Variant: the loop variable is a field of the client, shared by its calls.
ReceiveNext_SharedAttempt(c, r) ==
    /\ pc[c] = "withRetryNext"
    /\ response' = [response EXCEPT ![c] = <<r>>]
    /\ received' = [received EXCEPT ![c] = Append(@, r)]
    /\ inFlight' = [inFlight EXCEPT ![c] = @ - 1]
    /\ attempt' = [d \in DOMAIN attempt |-> attempt[c] + 1]
    /\ LoopFrom(c, r, attempt[c] + 1)
    /\ UNCHANGED <<configVars, args, calls, sent, threwAt, keyVars>>

\* response = await fn() inside the loop resumes with r; attempt++ runs and
\* the loop goes round.
ReceiveNext(c, r) ==
    /\ pc[c] = "withRetryNext"
    /\ response' = [response EXCEPT ![c] = <<r>>]
    /\ received' = [received EXCEPT ![c] = Append(@, r)]
    /\ inFlight' = [inFlight EXCEPT ![c] = @ - 1]
    /\ attempt' = [attempt EXCEPT ![c] = @ + 1]
    /\ LoopFrom(c, r, attempt[c] + 1)
    /\ UNCHANGED <<configVars, args, calls, sent, threwAt, keyVars>>

\* Variant: withRetry catches the exception and retries while attempts remain.
TransportThrows_Caught(c) ==
    /\ pc[c] \in {"makeRequest", "withRetryFirst", "withRetryNext"}
    /\ threwAt' = [threwAt EXCEPT ![c] = calls[c]]
    /\ inFlight' = [inFlight EXCEPT ![c] = @ - 1]
    /\ IF UseRetry(retryConfig) /\ Len(delays[c]) < retryConfig.maxRetries
       THEN /\ delays' = [delays EXCEPT ![c] =
                            Append(@, BackoffDelay(retryConfig, Len(@)))]
            /\ pc' = [pc EXCEPT ![c] = "backoff"]
            /\ UNCHANGED <<outcome, mutation>>
       ELSE /\ outcome' = [outcome EXCEPT ![c] = <<TransportError>>]
            /\ mutation' = MutationSettled(c, TransportError)
            /\ pc' = [pc EXCEPT ![c] = "done"]
            /\ UNCHANGED delays
    /\ UNCHANGED <<configVars, args, attempt, response, calls, sent, received,
                   keyVars>>

\* The pending networkClient.post throws or rejects: neither withRetry nor
\* convert has a try/catch, so the promise of convert rejects with it.
TransportThrows(c) ==
    /\ pc[c] \in {"makeRequest", "withRetryFirst", "withRetryNext"}
    /\ threwAt' = [threwAt EXCEPT ![c] = calls[c]]
    /\ inFlight' = [inFlight EXCEPT ![c] = @ - 1]
    /\ outcome' = [outcome EXCEPT ![c] = <<TransportError>>]
    /\ mutation' = MutationSettled(c, TransportError)
    /\ pc' = [pc EXCEPT ![c] = "done"]
    /\ UNCHANGED <<configVars, args, attempt, response, calls, sent, delays,
                   received, keyVars>>

\* One convert call made by the application on a client of any policy, the
\* transport answering with any response.
Next ==
    \/ \E c \in DOMAIN pc : Convert(c, ScenarioArgs)
    \/ \E c \in DOMAIN pc, r \in Responses : ReceiveDirect(c, r)
    \/ \E c \in DOMAIN pc, r \in Responses : ReceiveFirst(c, r)
    \/ \E c \in DOMAIN pc : TimerFires(c)
    \/ \E c \in DOMAIN pc, r \in Responses : ReceiveNext(c, r)
    \/ \E c \in DOMAIN pc : TransportThrows(c)

Spec == Init /\ [][Next]_vars

\* ------------------------------------------- the specification with progress
\* The pending networkClient.post of call c settles: with a response or with
\* an exception.
TransportAnswers(c) ==
    \/ \E r \in Responses : ReceiveDirect(c, r)
    \/ \E r \in Responses : ReceiveFirst(c, r)
    \/ \E r \in Responses : ReceiveNext(c, r)
    \/ TransportThrows(c)

\* The environment of a call: a pending transport call eventually settles
\* and a started setTimeout eventually fires.  The event loop then resumes
\* the awaiting call, which runs to its next await.
Fairness ==
    \A c \in CallIds : WF_vars(TransportAnswers(c)) /\ WF_vars(TimerFires(c))

SpecLive == Init /\ [][Next]_vars /\ Fairness

\* ------------------------------------- specifications with a small transport
\* A transport with four answers: a conversion, a retryable failure, a
\* permanent failure with a message, and ok=true without a payload.
SmallResponses ==
    { [ok |-> TRUE, status |-> 200, data |-> Envelope(TRUE, <<"<svg/>">>, <<>>)],
      [ok |-> FALSE, status |-> 500, data |-> DataNull],
      [ok |-> FALSE, status |-> 400,
       data |-> Envelope(FALSE, <<>>, <<"Bad request">>)],
      [ok |-> TRUE, status |-> 200, data |-> DataNull] }

SmallConfigs ==
    {NoRetry} \cup { RetryConfig(n, 1, <<>>) : n \in 0..SmallMaxRetries }

\* Two convert calls on one client.
ConcCallIds == {"call1", "call2"}

ConcArgs == { ScenarioArgs, ConvertArgs("data", <<"photo.png">>, <<>>, <<>>) }

InitConc == InitWith(ConcCallIds, {"http://localhost:3001"}, SmallConfigs)

\* The calls interleave at their awaits in any order.
NextConc ==
    \/ \E c \in DOMAIN pc, a \in ConcArgs : Convert(c, a)
    \/ \E c \in DOMAIN pc, r \in SmallResponses : ReceiveDirect(c, r)
    \/ \E c \in DOMAIN pc, r \in SmallResponses : ReceiveFirst(c, r)
    \/ \E c \in DOMAIN pc : TimerFires(c)
    \/ \E c \in DOMAIN pc, r \in SmallResponses : ReceiveNext(c, r)
    \/ \E c \in DOMAIN pc : TransportThrows(c)

SpecConc == InitConc /\ [][NextConc]_vars

InitHooks == InitWith(CallIds, BaseUrls, SmallConfigs)

\* One call with any arguments, made directly or through useConvert, beside
\* uses of the query key factory.
NextHooks ==
    \/ \E c \in DOMAIN pc, a \in AllArgs : Convert(c, a)
    \/ \E c \in DOMAIN pc, p \in AllArgs : Mutate(c, p)
    \/ \E c \in DOMAIN pc, r \in SmallResponses : ReceiveDirect(c, r)
    \/ \E c \in DOMAIN pc, r \in SmallResponses : ReceiveFirst(c, r)
    \/ \E c \in DOMAIN pc : TimerFires(c)
    \/ \E c \in DOMAIN pc, r \in SmallResponses : ReceiveNext(c, r)
    \/ \E c \in DOMAIN pc : TransportThrows(c)
    \/ SvgrKeysConvert

SpecHooks == InitHooks /\ [][NextHooks]_vars

\* ------------------------------------------------------------ properties
\* Vocabulary of the properties, stated on the transport's answers alone.
Done(c) == pc[c] = "done"

Threw(c) == threwAt[c] # 0

HasPolicy == retryConfig.present

\* ok=true and a populated payload.
IsSuccess(r) == r.ok /\ r.data.kind = "object"

\* The configured retryable set.
RetrySet ==
    IF retryConfig.retryableStatuses = <<>>
    THEN {408, 429, 500, 502, 503, 504}
    ELSE retryConfig.retryableStatuses[1]

IsRetryableFailure(r) == ~r.ok /\ r.status \in RetrySet

LastReceived(c) == received[c][Len(received[c])]

\* C1: whatever the retry policy (none included), when the first transport
\* response has ok=true and a populated payload, convert returns exactly that
\* payload after exactly one transport call and no delay.
C1_FirstSuccessReturnedAtOnce ==
    \A c \in DOMAIN pc :
        (Len(received[c]) >= 1 /\ IsSuccess(received[c][1]))
        => /\ Done(c)
           /\ outcome[c] = <<Returned(received[c][1].data)>>
           /\ calls[c] = 1
           /\ delays[c] = <<>>

\* A policy with retries left and a first success whose status is retryable.
C1_Witness ==
    \E c \in DOMAIN pc :
        /\ HasPolicy /\ retryConfig.maxRetries >= 1
        /\ Len(received[c]) = 1 /\ IsSuccess(received[c][1])
        /\ received[c][1].status \in RetrySet
        /\ Done(c) /\ outcome[c][1].kind = "returned"

\* C2: with a retry policy, a first failure response whose status is not in
\* the configured retryable set ends the call after exactly one transport
\* call and no delay, with the typed error of that response.
C2_NonRetryableFailsAtOnce ==
    \A c \in DOMAIN pc :
        ( /\ HasPolicy
          /\ Len(received[c]) >= 1
          /\ ~received[c][1].ok
          /\ received[c][1].status \notin RetrySet )
        => /\ Done(c)
           /\ calls[c] = 1
           /\ delays[c] = <<>>
           /\ outcome[c] # <<>>
           /\ outcome[c][1].kind = "SvgrApiError"
           /\ outcome[c][1].status = received[c][1].status

C2_Witness ==
    \E c \in DOMAIN pc :
        /\ HasPolicy /\ retryConfig.maxRetries >= 1
        /\ Len(received[c]) = 1 /\ ~received[c][1].ok
        /\ received[c][1].status = 400
        /\ Done(c) /\ outcome[c][1].kind = "SvgrApiError"

\* C3: with maxRetries = N, when every transport response of a call is the
\* same failure with a retryable status, the call makes exactly 1 + N
\* transport calls and raises the error of the last response.
C3_ExhaustionMakesOnePlusNCalls ==
    \A c \in DOMAIN pc :
        ( /\ HasPolicy /\ Done(c) /\ ~Threw(c)
          /\ Len(received[c]) >= 1
          /\ IsRetryableFailure(received[c][1])
          /\ \A i \in 1..Len(received[c]) : received[c][i] = received[c][1] )
        => /\ calls[c] = 1 + retryConfig.maxRetries
           /\ Len(received[c]) = 1 + retryConfig.maxRetries
           /\ outcome[c] =
                <<SvgrApiError(LastReceived(c).status,
                               ErrorMessage(LastReceived(c).data))>>

C3_Witness ==
    \E c \in DOMAIN pc :
        /\ HasPolicy /\ retryConfig.maxRetries = 2 /\ Done(c) /\ ~Threw(c)
        /\ calls[c] = 3
        /\ \A i \in 1..Len(received[c]) :
              received[c][i] = [ok |-> FALSE, status |-> 500, data |-> DataNull]
        /\ outcome[c] = <<SvgrApiError(500, "Conversion failed")>>

\* C4: the delay waited before the k-th retry is baseDelayMs * 2^(k-1).
C4_DelayDoubles ==
    \A c \in DOMAIN pc :
        \A k \in 1..Len(delays[c]) :
            delays[c][k] = retryConfig.baseDelayMs * (2 ^ (k - 1))

\* Three retries with a base delay of 2: the delays 2, 4, 8.
C4_Witness ==
    \E c \in DOMAIN pc :
        /\ retryConfig.baseDelayMs = 2
        /\ delays[c] = <<2, 4, 8>>
        /\ calls[c] = 4

\* C5: with maxRetries = N, when the responses are retryable failures up to a
\* first success at position j, the call makes min(1 + N, j) transport calls:
\* a success received at position j ends the call there and is returned (also
\* at j = 1 + N), and without a success within 1 + N responses the call stops
\* after 1 + N transport calls.
C5_CallsUntilFirstSuccess ==
    \A c \in DOMAIN pc :
        HasPolicy =>
        /\ \A j \in 1..Len(received[c]) :
              ( /\ IsSuccess(received[c][j])
                /\ \A i \in 1..(j - 1) : IsRetryableFailure(received[c][i]) )
              => /\ Done(c)
                 /\ j <= 1 + retryConfig.maxRetries
                 /\ calls[c] = j
                 /\ outcome[c] = <<Returned(received[c][j].data)>>
        /\ ( /\ Done(c) /\ ~Threw(c)
             /\ \A i \in 1..Len(received[c]) : IsRetryableFailure(received[c][i]) )
           => calls[c] = 1 + retryConfig.maxRetries

\* A success on the very last allowed attempt is returned.
C5_Witness ==
    \E c \in DOMAIN pc :
        /\ HasPolicy /\ retryConfig.maxRetries = 2
        /\ Len(received[c]) = 3
        /\ IsRetryableFailure(received[c][1])
        /\ IsRetryableFailure(received[c][2])
        /\ IsSuccess(received[c][3])
        /\ Done(c) /\ outcome[c][1].kind = "returned"

\* C6: in every state of a call the retries performed so far do not exceed
\* maxRetries: the loop variable is in 0..maxRetries, at most maxRetries
\* delays were started and at most 1 + maxRetries transport calls were made.
C6_RetriesBounded ==
    \A c \in DOMAIN pc :
        HasPolicy =>
        /\ attempt[c] \in 0..retryConfig.maxRetries
        /\ Len(delays[c]) <= retryConfig.maxRetries
        /\ calls[c] <= 1 + retryConfig.maxRetries

\* The loop variable has reached maxRetries and every retry was used.
C6_Witness ==
    \E c \in DOMAIN pc :
        /\ HasPolicy /\ retryConfig.maxRetries >= 2
        /\ attempt[c] = retryConfig.maxRetries
        /\ calls[c] = 1 + retryConfig.maxRetries
        /\ Len(delays[c]) = retryConfig.maxRetries

\* The payload has an error field (whatever its value).
HasErrorField(data) == data.kind = "object" /\ data.error # <<>>

\* C7 as stated: when the response convert settles on has ok=false, the error
\* raised has that response's status and, as message, the payload's error
\* field if present, otherwise "Conversion failed".
C7_MessageIsErrorFieldIfPresent ==
    \A c \in DOMAIN pc :
        (Done(c) /\ ~Threw(c) /\ ~response[c][1].ok)
        => outcome[c] =
             <<SvgrApiError(response[c][1].status,
                            IF HasErrorField(response[c][1].data)
                            THEN response[c][1].data.error[1]
                            ELSE "Conversion failed")>>

\* C7 amended: the message is the payload's error field if present and not
\* the empty string, otherwise "Conversion failed".
C7_MessageIsErrorFieldIfNonEmpty ==
    \A c \in DOMAIN pc :
        (Done(c) /\ ~Threw(c) /\ ~response[c][1].ok)
        => outcome[c] =
             <<SvgrApiError(response[c][1].status,
                            IF /\ HasErrorField(response[c][1].data)
                               /\ response[c][1].data.error[1] # ""
                            THEN response[c][1].data.error[1]
                            ELSE "Conversion failed")>>

\* A failure whose payload carries an error message, raised with it.
C7_Witness ==
    \E c \in DOMAIN pc :
        /\ Done(c) /\ ~Threw(c) /\ ~response[c][1].ok
        /\ response[c][1].data.error = <<"Bad request">>
        /\ outcome[c] = <<SvgrApiError(response[c][1].status, "Bad request")>>

\* C8: when the transport reports ok=true with a missing or falsy payload,
\* convert returns nothing and raises the typed error with that response's
\* status and the message "Conversion failed".
C8_EmptySuccessRaises ==
    \A c \in DOMAIN pc :
        ( /\ Done(c) /\ ~Threw(c)
          /\ response[c][1].ok
          /\ response[c][1].data.kind \in {"null", "empty"} )
        => outcome[c] =
             <<SvgrApiError(response[c][1].status, "Conversion failed")>>

C8_Witness ==
    \E c \in DOMAIN pc :
        /\ Done(c) /\ ~Threw(c)
        /\ response[c][1] = [ok |-> TRUE, status |-> 200, data |-> DataNull]
        /\ outcome[c] = <<SvgrApiError(200, "Conversion failed")>>

C10_EveryFailureIsSvgrApiError ==
    \A c \in DOMAIN pc :
        Done(c) => outcome[c][1].kind \in {"returned", "SvgrApiError"}

\* C10 amended: every failure that convert raises on a transport response is
\* an SvgrApiError with that response's status and a non-empty message; the
\* only other failure that reaches the caller is an exception thrown by the
\* transport itself.
C10_ResponseFailuresAreSvgrApiError ==
    \A c \in DOMAIN pc :
        Done(c) =>
        /\ outcome[c] # <<>>
        /\ outcome[c][1].kind \in {"returned", "SvgrApiError", "TransportError"}
        /\ (outcome[c][1].kind = "TransportError") <=> Threw(c)
        /\ outcome[c][1].kind = "SvgrApiError"
           => /\ outcome[c][1].status = response[c][1].status
              /\ outcome[c][1].message # ""

\* An API failure raised as SvgrApiError after retries were exhausted.
C10_Witness ==
    \E c \in DOMAIN pc :
        /\ Done(c) /\ ~Threw(c)
        /\ Len(received[c]) >= 2
        /\ outcome[c][1].kind = "SvgrApiError"
        /\ outcome[c][1].status = 500

\* C11: within one call at most one transport request is in flight: a
\* transport call is made only when none is pending, every earlier one was
\* answered, and, for a retry, from the backoff wait that followed the last
\* answer (one delay per earlier call).
C11_OneRequestInFlight ==
    /\ [](\A c \in DOMAIN pc : inFlight[c] \in {0, 1})
    /\ [][\A c \in DOMAIN pc :
            calls'[c] # calls[c]
            => /\ calls'[c] = calls[c] + 1
               /\ inFlight[c] = 0
               /\ Len(received[c]) = calls[c]
               /\ calls[c] > 0 => /\ pc[c] = "backoff"
                                  /\ Len(delays[c]) = calls[c]]_vars

\* A retry request is in flight.
C11_Witness ==
    \E c \in DOMAIN pc :
        calls[c] = 2 /\ inFlight[c] = 1 /\ pc[c] = "withRetryNext"

\* C13: a client constructed without a retry policy makes exactly one
\* transport call and waits no delay in every convert call, whatever the
\* response, and returns or raises on that single response.
C13_NoPolicyOneCall ==
    \A c \in DOMAIN pc :
        ~HasPolicy =>
        /\ calls[c] <= 1
        /\ delays[c] = <<>>
        /\ Len(received[c]) >= 1
           => /\ Done(c)
              /\ calls[c] = 1
              /\ Len(received[c]) = 1
              /\ outcome[c] # <<>>
              /\ IF IsSuccess(received[c][1])
                 THEN outcome[c][1] = Returned(received[c][1].data)
                 ELSE /\ outcome[c][1].kind = "SvgrApiError"
                      /\ outcome[c][1].status = received[c][1].status

\* Without a policy a 500 failure is raised after the single call.
C13_Witness ==
    \E c \in DOMAIN pc :
        /\ ~HasPolicy /\ Done(c)
        /\ received[c] = <<[ok |-> FALSE, status |-> 500, data |-> DataNull]>>
        /\ calls[c] = 1
        /\ outcome[c] = <<SvgrApiError(500, "Conversion failed")>>

\* C14: the statuses that trigger a retry are exactly the policy's
\* retryableStatuses when supplied (the defaults do not apply then) and
\* exactly {408, 429, 500, 502, 503, 504} when omitted: with a retry allowed,
\* a first failure is followed by a delay if and only if its status is in
\* that set.
C14_RetrySetIsPolicyOrDefault ==
    /\ RetryableStatuses(retryConfig) = RetrySet
    /\ \A c \in DOMAIN pc :
          ( /\ HasPolicy /\ retryConfig.maxRetries >= 1
            /\ Len(received[c]) >= 1
            /\ ~received[c][1].ok )
          => (Len(delays[c]) >= 1 <=> received[c][1].status \in RetrySet)

\* With retryableStatuses [418] a 500 failure is not retried.
C14_Witness ==
    \E c \in DOMAIN pc :
        /\ HasPolicy /\ retryConfig.maxRetries >= 1
        /\ retryConfig.retryableStatuses = <<{418}>>
        /\ Len(received[c]) = 1
        /\ ~received[c][1].ok /\ received[c][1].status = 500
        /\ Done(c) /\ delays[c] = <<>>

\* The optional fields of a request.
OptionalFields == {"filename", "quality", "transparentBg"}

\* C15: in the serialized body of every attempt, the optional fields the
\* caller omitted do not appear and the supplied ones appear with the
\* caller's values.
C15_OmittedFieldsNotSerialized ==
    \A c \in DOMAIN pc :
        \A i \in 1..Len(sent[c]) :
            LET body == JsonStringify(sent[c][i].body)
                a == args[c][1]
            IN /\ DOMAIN body =
                    {"original"} \cup {f \in OptionalFields : a[f] # <<>>}
               /\ body["original"] = a.original
               /\ \A f \in DOMAIN body \ {"original"} : body[f] = a[f][1]

\* quality 7 and transparentBg true without a filename, on a retry.
C15_Witness ==
    \E c \in DOMAIN pc :
        /\ args[c] = <<ScenarioArgs>>
        /\ Len(sent[c]) = 2
        /\ DOMAIN JsonStringify(sent[c][2].body) =
              {"original", "quality", "transparentBg"}
        /\ JsonStringify(sent[c][2].body)["quality"] = 7

\* C16: when the retries are exhausted on a retryable failure, the caller
\* sees exactly what convert without a retry policy produces for that last
\* response.
C16_ExhaustedLikeUnretried ==
    \A c \in DOMAIN pc :
        ( /\ HasPolicy /\ Done(c) /\ ~Threw(c)
          /\ calls[c] = 1 + retryConfig.maxRetries
          /\ IsRetryableFailure(LastReceived(c)) )
        => outcome[c] = <<Settle(LastReceived(c))>>

\* Two retries exhausted on a failure that carries a message.
C16_Witness ==
    \E c \in DOMAIN pc :
        /\ HasPolicy /\ retryConfig.maxRetries = 2 /\ Done(c) /\ ~Threw(c)
        /\ calls[c] = 3
        /\ IsRetryableFailure(LastReceived(c))
        /\ outcome[c] = <<SvgrApiError(LastReceived(c).status, "Bad request")>>

\* C17 as stated: whenever convert raises an error that carries a retryable
\* status, exactly 1 + maxRetries transport calls were made.
C17_RetryableStatusOnlyAfterExhaustion ==
    \A c \in DOMAIN pc :
        ( /\ HasPolicy /\ Done(c)
          /\ outcome[c][1].kind = "SvgrApiError"
          /\ outcome[c][1].status \in RetrySet )
        => calls[c] = 1 + retryConfig.maxRetries

\* C17 amended: whenever convert raises the error of a response with
\* ok=false and a retryable status, exactly 1 + maxRetries transport calls
\* were made.
C17_RetryableFailureOnlyAfterExhaustion ==
    \A c \in DOMAIN pc :
        ( /\ HasPolicy /\ Done(c)
          /\ outcome[c][1].kind = "SvgrApiError"
          /\ outcome[c][1].status \in RetrySet
          /\ ~response[c][1].ok )
        => calls[c] = 1 + retryConfig.maxRetries

\* A retryable failure raised after three retries.
C17_Witness ==
    \E c \in DOMAIN pc :
        /\ HasPolicy /\ retryConfig.maxRetries = 3 /\ Done(c)
        /\ outcome[c][1].kind = "SvgrApiError"
        /\ outcome[c][1].status \in RetrySet
        /\ ~response[c][1].ok
        /\ calls[c] = 4

\* C18: a trigger of the useConvert mutation calls convert once with the
\* four fields of its parameter object, unmodified; the mutation is pending
\* while that call runs, success with the returned payload when it returns
\* and error with the raised error when it raises; it moves only from idle
\* to pending and from pending to success or error, and no transport call is
\* made beyond those of convert.
C18_HookForwardsAndFollowsCall ==
    /\ [](\A c \in DOMAIN pc :
            /\ mutation[c].status = "idle" => mutation[c].variables = <<>>
            /\ mutation[c].status # "idle"
               => /\ args[c] = mutation[c].variables
                  /\ calls[c] <= 1 + retryConfig.maxRetries
                  /\ mutation[c].status = "pending"
                     <=> pc[c] \notin {"idle", "done"}
                  /\ mutation[c].status = "success"
                     <=> (Done(c) /\ outcome[c][1].kind = "returned")
                  /\ mutation[c].status = "error"
                     <=> (Done(c) /\ outcome[c][1].kind # "returned")
                  /\ mutation[c].status = "success"
                     => mutation[c].data = <<outcome[c][1].value>>
                  /\ mutation[c].status = "error"
                     => mutation[c].error = outcome[c])
    /\ [][\A c \in DOMAIN pc :
            mutation'[c].status # mutation[c].status
            => \/ /\ mutation[c].status = "idle"
                  /\ mutation'[c].status = "pending"
                  /\ calls[c] = 0 /\ calls'[c] = 1
               \/ /\ mutation[c].status = "pending"
                  /\ mutation'[c].status \in {"success", "error"}]_vars

\* A mutation with all four fields settled in success after one retry.
C18_Witness ==
    \E c \in DOMAIN pc :
        /\ mutation[c].status = "success"
        /\ mutation[c].variables =
              <<ConvertArgs("data", <<"photo.png">>, <<7>>, <<FALSE>>)>>
        /\ Len(sent[c]) = 2
        /\ sent[c][2].body.quality = <<7>>

\* C19: svgrKeys.all is always ("svgr"), every svgrKeys.convert() returns
\* ("svgr", "convert"), which has svgrKeys.all as its prefix, and the calls
\* leave svgrKeys.all unchanged.
C19_KeysAreConstant ==
    /\ svgrAll = <<"svgr">>
    /\ \A i \in 1..Len(keysReturned) :
          /\ keysReturned[i] = <<"svgr", "convert">>
          /\ SubSeq(keysReturned[i], 1, Len(svgrAll)) = svgrAll

\* svgrKeys.convert() was called twice.
C19_Witness ==
    /\ Len(keysReturned) = 2
    /\ keysReturned[1] = keysReturned[2]

\* Everything a call owns.
CallState(c) ==
    <<pc[c], args[c], attempt[c], response[c], outcome[c], calls[c], sent[c],
      inFlight[c], delays[c], received[c], threwAt[c]>>

\* C12: with calls running concurrently on one client, no step modifies the
\* client's configuration, a step of one call changes nothing of another
\* call, and two calls with the same arguments that received the same
\* transport outcomes are, at the same await, in the same state (same number
\* of transport calls, requests, delays and outcome), whatever the
\* interleaving.
C12_ConcurrentCallsIndependent ==
    /\ [][ /\ baseUrl' = baseUrl
           /\ retryConfig' = retryConfig
           /\ \A c, d \in DOMAIN pc :
                (c # d /\ pc'[c] # pc[c]) => CallState(d)' = CallState(d)
         ]_vars
    /\ [](\A c, d \in DOMAIN pc :
            ( /\ args[c] = args[d]
              /\ received[c] = received[d]
              /\ threwAt[c] = threwAt[d]
              /\ pc[c] = pc[d] )
            => CallState(c) = CallState(d))

\* The calls overlap: one waits in its first backoff while the other awaits
\* the answer to its second retry, and their arguments differ.
C12_Witness ==
    /\ DOMAIN pc = {"call1", "call2"}
    /\ pc["call1"] = "backoff" /\ Len(delays["call1"]) = 1
    /\ pc["call2"] = "withRetryNext" /\ calls["call2"] = 3
    /\ args["call1"] # args["call2"]

\* C20: two calls under the same retry configuration that received the same
\* responses have, at the same await, waited the same delays and made the
\* same number of transport calls, whatever their arguments and the order in
\* which they ran; and the k-th delay is the same in every call: of any two
\* calls, the delay sequence of one is a prefix of the other's.
C20_DelaysDeterministic ==
    \A c, d \in DOMAIN pc :
        /\ ( /\ received[c] = received[d]
             /\ threwAt[c] = threwAt[d]
             /\ pc[c] = pc[d] )
           => /\ delays[c] = delays[d]
              /\ calls[c] = calls[d]
        /\ Len(delays[c]) <= Len(delays[d])
           => delays[c] = SubSeq(delays[d], 1, Len(delays[c]))

\* Both calls were retried twice on the same responses, with other arguments.
C20_Witness ==
    /\ DOMAIN pc = {"call1", "call2"}
    /\ Done("call1") /\ Done("call2")
    /\ received["call1"] = received["call2"]
    /\ Len(received["call1"]) = 3
    /\ args["call1"] # args["call2"]
    /\ delays["call1"] = <<1, 2>> /\ delays["call2"] = <<1, 2>>

\* C21: with a retry policy, the first response of a call that has ok=true
\* or a status outside the retryable set is the last one: the call is over
\* with it, no transport call follows it, and the call's result is that
\* response's (its payload, or an error with its status), whatever the
\* earlier responses were.
C21_FirstFinalResponseEndsCall ==
    \A c \in DOMAIN pc :
        HasPolicy =>
            \A j \in 1..Len(received[c]) :
                (received[c][j].ok \/ received[c][j].status \notin RetrySet)
                => /\ j = Len(received[c])
                   /\ calls[c] = j
                   /\ Done(c)
                   /\ outcome[c] # <<>>
                   /\ IF IsSuccess(received[c][j])
                      THEN outcome[c][1] = Returned(received[c][j].data)
                      ELSE /\ outcome[c][1].kind = "SvgrApiError"
                           /\ outcome[c][1].status = received[c][j].status

\* maxRetries = 2, the responses 500 then 400: two transport calls and an
\* error with status 400.
C21_Witness ==
    \E c \in DOMAIN pc :
        /\ HasPolicy /\ retryConfig.maxRetries = 2
        /\ Len(received[c]) = 2
        /\ ~received[c][1].ok /\ received[c][1].status = 500
        /\ ~received[c][2].ok /\ received[c][2].status = 400
        /\ Done(c) /\ calls[c] = 2
        /\ outcome[c][1].kind = "SvgrApiError" /\ outcome[c][1].status = 400

\* C22: in one call delays and transport calls alternate.  At every await:
\* before the call nothing was sent or waited; while a request is pending
\* and after the call is over there is one delay less than transport calls
\* (none before the first, none after the last); while the timer runs there
\* are as many delays as transport calls.  And at every step: a transport
\* call is made only when every earlier one was followed by a delay, a
\* delay is started only when the latest transport call has no delay yet.
C22_DelaysAndCallsAlternate ==
    /\ [](\A c \in DOMAIN pc :
            /\ pc[c] = "idle" => (calls[c] = 0 /\ delays[c] = <<>>)
            /\ pc[c] \in {"makeRequest", "withRetryFirst", "withRetryNext",
                          "done"}
               => Len(delays[c]) = calls[c] - 1
            /\ pc[c] = "backoff" => Len(delays[c]) = calls[c])
    /\ [][\A c \in DOMAIN pc :
            /\ calls'[c] # calls[c]
               => /\ calls'[c] = calls[c] + 1
                  /\ delays'[c] = delays[c]
                  /\ Len(delays[c]) = calls[c]
            /\ delays'[c] # delays[c]
               => /\ Len(delays'[c]) = Len(delays[c]) + 1
                  /\ calls'[c] = calls[c]
                  /\ Len(delays[c]) = calls[c] - 1
         ]_vars

\* Retries exhausted under maxRetries = 3: four transport calls, three
\* delays, the last response a retryable failure.
C22_Witness ==
    \E c \in DOMAIN pc :
        /\ HasPolicy /\ retryConfig.maxRetries = 3
        /\ Done(c) /\ ~Threw(c)
        /\ calls[c] = 4 /\ Len(delays[c]) = 3
        /\ IsRetryableFailure(LastReceived(c))

\* C24: with a retry policy, a first response with ok=true ends the call
\* after exactly one transport call and no delay, whatever its status and
\* payload: a populated payload is returned, an empty one is raised as the
\* typed error with the response's status and the fallback message.
C24_OkFirstResponseNeverRetried ==
    \A c \in DOMAIN pc :
        (HasPolicy /\ Len(received[c]) >= 1 /\ received[c][1].ok)
        => /\ Done(c)
           /\ calls[c] = 1
           /\ Len(received[c]) = 1
           /\ delays[c] = <<>>
           /\ outcome[c] =
                IF received[c][1].data.kind = "object"
                THEN <<Returned(received[c][1].data)>>
                ELSE <<SvgrApiError(received[c][1].status, "Conversion failed")>>

\* Retries are left, the first response is ok=true with a retryable status
\* and no payload.
C24_Witness ==
    \E c \in DOMAIN pc :
        /\ HasPolicy /\ retryConfig.maxRetries >= 1
        /\ Len(received[c]) = 1 /\ received[c][1].ok
        /\ received[c][1].status \in RetrySet
        /\ received[c][1].data.kind = "null"
        /\ Done(c) /\ calls[c] = 1
        /\ outcome[c][1].kind = "SvgrApiError"

\* What a call shows its caller once one response r has arrived and nothing
\* is retried.
UnretriedResult(r) ==
    IF r.ok /\ r.data.kind = "object"
    THEN Returned(r.data)
    ELSE SvgrApiError(r.status,
                      IF r.data.kind = "object" /\ r.data.error # <<>>
                         /\ r.data.error # <<"">>
                      THEN r.data.error[1]
                      ELSE "Conversion failed")

\* What the caller can observe of a call.
Observed(c) ==
    [calls |-> calls[c], sent |-> sent[c], delays |-> delays[c],
     over |-> Done(c), outcome |-> outcome[c]]

\* C25: a client whose policy has maxRetries = 0 and a client without a
\* policy show the same behaviour, a function of the transport's answer
\* alone: one transport call with the same request, no delay, and on a
\* response the same returned payload or raised error, on a transport
\* exception that exception.
C25_ZeroRetriesLikeNoPolicy ==
    \A c \in DOMAIN pc :
        ((~HasPolicy \/ retryConfig.maxRetries = 0) /\ pc[c] # "idle")
        => Observed(c) =
             [calls |-> 1,
              sent |-> <<[url |-> <<baseUrl, "/api/v1/convert">>,
                          body |-> [original |-> <<args[c][1].original>>,
                                    filename |-> args[c][1].filename,
                                    quality |-> args[c][1].quality,
                                    transparentBg |-> args[c][1].transparentBg],
                          timeout |-> 30000]>>,
              delays |-> <<>>,
              over |-> (received[c] # <<>> \/ Threw(c)),
              outcome |-> IF Threw(c) THEN <<TransportError>>
                          ELSE IF received[c] # <<>>
                               THEN <<UnretriedResult(received[c][1])>>
                               ELSE <<>>]

\* A policy with maxRetries = 0 met a failure with a retryable status.
C25_Witness ==
    \E c \in DOMAIN pc :
        /\ HasPolicy /\ retryConfig.maxRetries = 0
        /\ Len(received[c]) = 1 /\ IsRetryableFailure(received[c][1])
        /\ Done(c) /\ calls[c] = 1 /\ delays[c] = <<>>
        /\ outcome[c][1].kind = "SvgrApiError"

\* C27: a response with ok=true and a populated payload is returned to the
\* caller unchanged whatever the payload's own success field says: when it
\* is the first response the call makes one transport call and no retry,
\* and wherever it arrives it is the last response and the call's result.
C27_EnvelopeFlagNotRead ==
    \A c \in DOMAIN pc :
        \A j \in 1..Len(received[c]) :
            ( /\ received[c][j].ok
              /\ received[c][j].data.kind = "object"
              /\ ~received[c][j].data.success )
            => /\ Done(c)
               /\ j = Len(received[c])
               /\ calls[c] = j
               /\ outcome[c] = <<Returned(received[c][j].data)>>
               /\ outcome[c][1].value.success = FALSE
               /\ Len(delays[c]) = j - 1

\* Under a policy with retries left, the first response is ok=true with the
\* envelope {success: false, error: "Bad request"}.
C27_Witness ==
    \E c \in DOMAIN pc :
        /\ HasPolicy /\ retryConfig.maxRetries >= 1
        /\ received[c] =
             <<[ok |-> TRUE, status |-> 200,
                data |-> Envelope(FALSE, <<>>, <<"Bad request">>)]>>
        /\ Done(c) /\ calls[c] = 1 /\ delays[c] = <<>>
        /\ outcome[c][1].kind = "returned"

\* C26: every request of one call, the first and each retry, goes to the
\* configured baseUrl followed by /api/v1/convert, carries the four body
\* fields with the values the caller passed (an omitted one undefined) and
\* the timeout 30000; so all requests of a call are equal, there are as many
\* as transport calls, and no step changes a request already sent.
C26_EveryAttemptSendsSameRequest ==
    /\ [](\A c \in DOMAIN pc :
            /\ Len(sent[c]) = calls[c]
            /\ \A i \in 1..Len(sent[c]) :
                  /\ sent[c][i].url = <<baseUrl, "/api/v1/convert">>
                  /\ sent[c][i].body.original = <<args[c][1].original>>
                  /\ sent[c][i].body.filename = args[c][1].filename
                  /\ sent[c][i].body.quality = args[c][1].quality
                  /\ sent[c][i].body.transparentBg = args[c][1].transparentBg
                  /\ DOMAIN sent[c][i].body =
                        {"original", "filename", "quality", "transparentBg"}
                  /\ sent[c][i].timeout = 30000
                  /\ sent[c][i] = sent[c][1])
    /\ [][\A c \in DOMAIN pc :
            SubSeq(sent'[c], 1, Len(sent[c])) = sent[c]]_vars

\* Two retries of a call with a filename, a quality and a transparency flag
\* on the second base URL: three requests.
C26_Witness ==
    \E c \in DOMAIN pc :
        /\ baseUrl = "https://api.svgr.app"
        /\ args[c] = <<ConvertArgs("data", <<"photo.png">>, <<7>>, <<FALSE>>)>>
        /\ calls[c] = 3 /\ Len(sent[c]) = 3
        /\ Len(delays[c]) = 2
        /\ sent[c][3].body.filename = <<"photo.png">>

\* C23: under every retry policy and whatever the transport answers, a
\* convert call that was made is eventually over, having returned a payload
\* or raised, provided every transport call settles and every timer fires;
\* and the number of its transport calls never exceeds 1 + maxRetries.
C23_EveryCallTerminates ==
    /\ \A c \in CallIds :
          (pc[c] # "idle")
          ~> ( /\ Done(c)
               /\ outcome[c] # <<>>
               /\ outcome[c][1].kind \in
                     {"returned", "SvgrApiError", "TransportError"} )
    /\ [](\A c \in CallIds :
            calls[c] <= 1 + (IF HasPolicy THEN retryConfig.maxRetries ELSE 0))

\* A call that retried as often as the largest policy allows is over.
C23_Witness ==
    \E c \in CallIds :
        /\ HasPolicy /\ retryConfig.maxRetries = 3
        /\ calls[c] = 4 /\ Len(delays[c]) = 3
        /\ Done(c) /\ outcome[c] # <<>>

====
